---- MODULE Spec2Model ----
(***************************************************************************)
(* The planar beam frame solver of simple_fem_bridge_demo.py               *)
(* (SimpleFEMBeam, ContinuousBridgeFEM) as a state machine: one action per  *)
(* public method of ContinuousBridgeFEM, the model object's attributes as   *)
(* the variables.                                                           *)
(*                                                                          *)
(* Numbers.  Python floats are modelled as exact fractions <<n, d>> in      *)
(* lowest terms (d > 0), extended by the IEEE-754 special values the code   *)
(* can produce through a division by zero: <<1, 0>> is +inf, <<-1, 0>> is   *)
(* -inf and <<0, 0>> is NaN.  Rounding and overflow of the 64-bit floats    *)
(* are not modelled; the special values and their propagation are.          *)
(*                                                                          *)
(* Indices.  Node ids, element ids and DOF indices are 0-based as in the    *)
(* source; Python lists and numpy arrays are sequences, so index i of the   *)
(* source is position i + 1 here.  A negative index counts from the end,    *)
(* as Python and numpy index (PyIndex).                                     *)
(***************************************************************************)
EXTENDS Integers, Sequences, FiniteSets, TLC

VARIABLES nodes, elements, supports, loads, displacements, reactions, ret

vars == <<nodes, elements, supports, loads, displacements, reactions, ret>>

(***************************************************************************)
(* Bounds of the model.                                                     *)
(***************************************************************************)
MaxNodes == 2
MaxElements == 1
MaxSupports == 2
MaxLoads == 1

(***************************************************************************)
(* Float arithmetic.                                                        *)
(***************************************************************************)
Abs(i) == IF i < 0 THEN -i ELSE i

Sign(i) == IF i > 0 THEN 1 ELSE IF i < 0 THEN -1 ELSE 0

RECURSIVE Gcd(_, _)
Gcd(a, b) == IF b = 0 THEN a ELSE Gcd(b, a % b)

\* The float n/d: lowest terms, positive denominator; d = 0 gives inf, -inf or NaN.
Norm(n, d) ==
    IF d = 0 THEN <<Sign(n), 0>>
    ELSE LET g == Gcd(Abs(n), Abs(d))
         IN IF d < 0 THEN <<(-n) \div g, (-d) \div g>> ELSE <<n \div g, d \div g>>

Num(i) == <<i, 1>>

Zero == <<0, 1>>

NaN == <<0, 0>>

PosInf == <<1, 0>>

NegInf == <<-1, 0>>

IsFinite(a) == a[2] # 0

IsNaN(a) == a = NaN

\* a + b
Add(a, b) ==
    IF a[2] = 0 /\ b[2] = 0 THEN (IF a = b THEN a ELSE NaN)
    ELSE IF a[2] = 0 THEN a
    ELSE IF b[2] = 0 THEN b
    ELSE LET g == Gcd(a[2], b[2])
         IN Norm(a[1] * (b[2] \div g) + b[1] * (a[2] \div g), (a[2] \div g) * b[2])

\* -a
Neg(a) == <<-a[1], a[2]>>

\* a - b
Sub(a, b) == Add(a, Neg(b))

\* a * b
Mul(a, b) ==
    IF a[2] = 0 \/ b[2] = 0 THEN Norm(Sign(a[1]) * Sign(b[1]), 0)
    ELSE LET g1 == Gcd(Abs(a[1]), b[2])
             g2 == Gcd(Abs(b[1]), a[2])
         IN <<(a[1] \div g1) * (b[1] \div g2), (a[2] \div g2) * (b[2] \div g1)>>

\* a / b, with numpy's scalar division by zero: x/0 is inf, -inf or NaN (a warning,
\* no exception).
Div(a, b) ==
    IF b[2] = 0 THEN (IF b[1] = 0 \/ a[2] = 0 THEN NaN ELSE Zero)
    ELSE IF b[1] = 0 THEN Norm(a[1], 0)
    ELSE IF a[2] = 0 THEN Norm(a[1] * Sign(b[1]), 0)
    ELSE Mul(a, <<b[2] * Sign(b[1]), Abs(b[1])>>)

\* a == b on floats: NaN equals nothing, itself included.
FloatEq(a, b) == ~IsNaN(a) /\ ~IsNaN(b) /\ a = b

\* abs(a)
FloatAbs(a) == <<Abs(a[1]), a[2]>>

\* a > b on floats: false when either is NaN.
FloatGt(a, b) ==
    IF IsNaN(a) \/ IsNaN(b) THEN FALSE
    ELSE IF a[2] = 0 /\ b[2] = 0 THEN a[1] > b[1]
    ELSE IF a[2] = 0 THEN a[1] > 0
    ELSE IF b[2] = 0 THEN b[1] < 0
    ELSE a[1] * b[2] > b[1] * a[2]

\* np.sqrt of the sum of two integer squares; the node positions the model draws
\* make it a perfect square.
Sqrt(n) == CHOOSE r \in 0..n : r * r = n

(***************************************************************************)
(* Indexing.                                                                *)
(***************************************************************************)
\* The position index i denotes in a list or array of length n, as Python and
\* numpy resolve it: i itself in 0..n-1, i + n for i in -n..-1, and no position
\* (IndexError, here -1) otherwise.
PyIndex(i, n) ==
    IF 0 <= i /\ i < n THEN i
    ELSE IF -n <= i /\ i < 0 THEN i + n
    ELSE -1

\* v[i] of the source for a resolved index i.
At(v, i) == v[i + 1]

\* np.zeros(n)
ZeroVec(n) == [i \in 1..n |-> Zero] \o <<>>

\* np.zeros((n, n))
ZeroMat(n) == [i \in 1..n |-> ZeroVec(n)] \o <<>>

Range(n) == [i \in 1..n |-> i - 1] \o <<>>

(***************************************************************************)
(* SimpleFEMBeam.                                                           *)
(***************************************************************************)
\* SimpleFEMBeam.stiffness_matrix: the 6x6 element stiffness matrix.
stiffness_matrix(L, E, A, I) ==
    LET EA_L == Div(Mul(E, A), L)
        nEA_L == Div(Mul(Neg(E), A), L)
        EI_L3 == Div(Mul(Mul(Num(12), E), I), Mul(Mul(L, L), L))
        EI_L2 == Div(Mul(Mul(Num(6), E), I), Mul(L, L))
        EI_L == Div(Mul(Mul(Num(4), E), I), L)
        EI_L_2 == Div(Mul(Mul(Num(2), E), I), L)
    IN << <<EA_L,  Zero,       Zero,       nEA_L, Zero,       Zero>>,
          <<Zero,  EI_L3,      EI_L2,      Zero,  Neg(EI_L3), EI_L2>>,
          <<Zero,  EI_L2,      EI_L,       Zero,  Neg(EI_L2), EI_L_2>>,
          <<nEA_L, Zero,       Zero,       EA_L,  Zero,       Zero>>,
          <<Zero,  Neg(EI_L3), Neg(EI_L2), Zero,  EI_L3,      Neg(EI_L2)>>,
          <<Zero,  EI_L2,      EI_L_2,     Zero,  Neg(EI_L2), EI_L>> >>

\* Equivalent nodal loads with the end moments of one sign: f[5] = q L^2 / 12.
equivalent_nodal_loads_same_sign(L, q) ==
    << Zero,
       Div(Mul(q, L), Num(2)),
       Div(Mul(q, Mul(L, L)), Num(12)),
       Zero,
       Div(Mul(q, L), Num(2)),
       Div(Mul(q, Mul(L, L)), Num(12)) >>

\* SimpleFEMBeam.equivalent_nodal_loads: the 6 equivalent nodal loads of a
\* uniform load q.
equivalent_nodal_loads(L, q) ==
    << Zero,
       Div(Mul(q, L), Num(2)),
       Div(Mul(q, Mul(L, L)), Num(12)),
       Zero,
       Div(Mul(q, L), Num(2)),
       Div(Mul(Neg(q), Mul(L, L)), Num(12)) >>

(***************************************************************************)
(* ContinuousBridgeFEM: assembly, boundary conditions, linear solve.        *)
(***************************************************************************)
\* dof_map of an element: the 6 global DOF indices of its two nodes.
dof_map(element) ==
    LET node1 == element.nodes[1]
        node2 == element.nodes[2]
    IN <<node1 * 3, node1 * 3 + 1, node1 * 3 + 2,
         node2 * 3, node2 * 3 + 1, node2 * 3 + 2>>

\* Whether every index of dmap denotes a position of an array of length n.
InBounds(dmap, n) == \A m \in 1..Len(dmap) : PyIndex(dmap[m], n) # -1

\* ScatterK that overwrites: "K_global[dof_map[m], dof_map[n]] = k_local[m, n]".
RECURSIVE ScatterKOverwrite(_, _, _, _)
ScatterKOverwrite(K, k_local, dmap, idx) ==
    IF idx = 36 THEN K
    ELSE LET m == idx \div 6
             n == idx % 6
             r == PyIndex(dmap[m + 1], Len(K)) + 1
             c == PyIndex(dmap[n + 1], Len(K)) + 1
         IN ScatterKOverwrite([K EXCEPT ![r][c] = k_local[m + 1][n + 1]],
                              k_local, dmap, idx + 1)

\* The double loop "K_global[dof_map[m], dof_map[n]] += k_local[m, n]" from
\* its idx-th iteration (m = idx \div 6, n = idx % 6) on.
RECURSIVE ScatterK(_, _, _, _)
ScatterK(K, k_local, dmap, idx) ==
    IF idx = 36 THEN K
    ELSE LET m == idx \div 6
             n == idx % 6
             r == PyIndex(dmap[m + 1], Len(K)) + 1
             c == PyIndex(dmap[n + 1], Len(K)) + 1
         IN ScatterK([K EXCEPT ![r][c] = Add(@, k_local[m + 1][n + 1])],
                     k_local, dmap, idx + 1)

\* The loop over self.elements of assemble_global_matrix, from element i on.
RECURSIVE AssembleK(_, _, _)
AssembleK(K, elems, i) ==
    IF i > Len(elems) THEN K
    ELSE LET element == elems[i]
             k_local == stiffness_matrix(element.length, element.E, element.A, element.I)
             K_next == ScatterK(K, k_local, dof_map(element), 0)
         IN \* "+=" updates the array in place: it keeps its shape.
            IF Len(K_next) = Len(K) THEN AssembleK(K_next, elems, i + 1) ELSE K_next

\* ScatterF that overwrites: "F_global[dof_map[m]] = f_equiv[m]".
RECURSIVE ScatterFOverwrite(_, _, _, _)
ScatterFOverwrite(F, f, dmap, m) ==
    IF m = Len(dmap) THEN F
    ELSE ScatterFOverwrite([F EXCEPT ![PyIndex(dmap[m + 1], Len(F)) + 1] = f[m + 1]],
                           f, dmap, m + 1)

\* The loop "F_global[dof_map[m]] += f_equiv[m]" from its m-th iteration on.
RECURSIVE ScatterF(_, _, _, _)
ScatterF(F, f, dmap, m) ==
    IF m = Len(dmap) THEN F
    ELSE ScatterF([F EXCEPT ![PyIndex(dmap[m + 1], Len(F)) + 1] = Add(@, f[m + 1])],
                  f, dmap, m + 1)

\* The loop over self.loads of assemble_global_matrix, from load i on: the load
\* vector, or the IndexError of the first load that names no element or no DOF.
RECURSIVE AssembleF(_, _, _, _)
AssembleF(F, elems, lds, i) ==
    IF i > Len(lds) THEN [err |-> "", F |-> F]
    ELSE LET load == lds[i]
         IN IF load.type = "distributed"
            THEN LET e == PyIndex(load.element, Len(elems))
                 IN IF e = -1 THEN [err |-> "IndexError", F |-> F]
                    ELSE LET element == elems[e + 1]
                             f_equiv == equivalent_nodal_loads(element.length, load.value)
                             dmap == dof_map(element)
                         IN IF ~InBounds(dmap, Len(F)) THEN [err |-> "IndexError", F |-> F]
                            ELSE AssembleF(ScatterF(F, f_equiv, dmap, 0), elems, lds, i + 1)
            ELSE LET dmap == <<load.node * 3, load.node * 3 + 1, load.node * 3 + 2>>
                 IN IF ~InBounds(dmap, Len(F)) THEN [err |-> "IndexError", F |-> F]
                    ELSE AssembleF(ScatterF(F, load.value, dmap, 0), elems, lds, i + 1)

\* ContinuousBridgeFEM.assemble_global_matrix on a model (nds, elems, lds).
assemble_global_matrix(nds, elems, lds) ==
    LET n_dof == Len(nds) * 3
    IN IF \E i \in 1..Len(elems) : ~InBounds(dof_map(elems[i]), n_dof)
       THEN [err |-> "IndexError", K |-> <<>>, F |-> <<>>]
       ELSE LET K_global == AssembleK(ZeroMat(n_dof), elems, 1)
                f == AssembleF(ZeroVec(n_dof), elems, lds, 1)
            IN [err |-> f.err, K |-> K_global, F |-> f.F]

\* Remove by position instead of by value: "del free_dof[dof]".
RemoveAt(free_dof, dof) ==
    IF 0 <= dof /\ dof < Len(free_dof)
    THEN [a \in 1..(Len(free_dof) - 1) |->
             IF a <= dof THEN free_dof[a] ELSE free_dof[a + 1]] \o <<>>
    ELSE free_dof

\* "if dof in free_dof: free_dof.remove(dof)" on a list without duplicates.
Remove(free_dof, dof) == SelectSeq(free_dof, LAMBDA d : d # dof)

\* The loop of apply_boundary_conditions with the DOF resolved as an array index:
\* a negative node id constrains the node it wraps around to.
RECURSIVE RemoveConstrainedWrapping(_, _, _)
RemoveConstrainedWrapping(free_dof, sups, idx) ==
    IF idx = 3 * Len(sups) THEN free_dof
    ELSE LET support == sups[idx \div 3 + 1]
             i == idx % 3
         IN RemoveConstrainedWrapping(
                IF support.constraints[i + 1] # 0
                THEN Remove(free_dof, PyIndex(support.node * 3 + i, 3 * Len(nodes)))
                ELSE free_dof,
                sups, idx + 1)

\* The loop over self.supports of apply_boundary_conditions, from its idx-th
\* iteration (support idx \div 3, component idx % 3) on.
RECURSIVE RemoveConstrained(_, _, _)
RemoveConstrained(free_dof, sups, idx) ==
    IF idx = 3 * Len(sups) THEN free_dof
    ELSE LET support == sups[idx \div 3 + 1]
             i == idx % 3
         IN RemoveConstrained(
                IF support.constraints[i + 1] # 0
                THEN Remove(free_dof, support.node * 3 + i)
                ELSE free_dof,
                sups, idx + 1)

\* ContinuousBridgeFEM.apply_boundary_conditions.
apply_boundary_conditions(K, F, sups) ==
    LET free_dof == RemoveConstrained(Range(Len(F)), sups, 0)
        n == Len(free_dof)
    IN [K_reduced |-> [a \in 1..n |-> [b \in 1..n |-> At(At(K, free_dof[a]), free_dof[b])] \o <<>>] \o <<>>,
        F_reduced |-> [a \in 1..n |-> At(F, free_dof[a])] \o <<>>,
        free_dof |-> free_dof]

\* The row of rows k..n of column k that LU's partial pivoting picks: the first of
\* largest absolute value (a NaN is never larger, nor is anything larger than it).
RECURSIVE PivotRow(_, _, _, _)
PivotRow(A, k, i, best) ==
    IF i > Len(A) THEN best
    ELSE PivotRow(A, k, i + 1,
                  IF FloatGt(FloatAbs(A[i][k]), FloatAbs(A[best][k])) THEN i ELSE best)

\* LU factorisation with partial pivoting of the augmented system (A | b), from
\* column k on; singular when a pivot is exactly zero.
RECURSIVE Eliminate(_, _, _)
Eliminate(A, b, k) ==
    IF k > Len(A) THEN [singular |-> FALSE, A |-> A, b |-> b]
    ELSE LET n == Len(A)
             p == PivotRow(A, k, k + 1, k)
             sw(i) == IF i = k THEN p ELSE IF i = p THEN k ELSE i
             A1 == [i \in 1..n |-> A[sw(i)]] \o <<>>
             b1 == [i \in 1..n |-> b[sw(i)]] \o <<>>
         IN IF FloatEq(A1[k][k], Zero) THEN [singular |-> TRUE, A |-> A1, b |-> b1]
            ELSE LET l == [i \in 1..n |-> IF i > k THEN Div(A1[i][k], A1[k][k]) ELSE Zero] \o <<>>
                     A2 == [i \in 1..n |->
                              IF i <= k THEN A1[i]
                              ELSE [j \in 1..n |->
                                      IF j < k THEN A1[i][j]
                                      ELSE IF j = k THEN Zero
                                      ELSE Sub(A1[i][j], Mul(l[i], A1[k][j]))] \o <<>>] \o <<>>
                     b2 == [i \in 1..n |->
                              IF i <= k THEN b1[i]
                              ELSE Sub(b1[i], Mul(l[i], b1[k]))] \o <<>>
                 IN Eliminate(A2, b2, k + 1)

\* The sum of U[i][j] * x[j] over j in from..n.
RECURSIVE Dot(_, _, _)
Dot(row, x, from) ==
    IF from > Len(row) THEN Zero
    ELSE Add(Mul(row[from], x[from]), Dot(row, x, from + 1))

\* Back substitution on the upper triangle U: x[i] for i = n down to 1.
RECURSIVE BackSubstitute(_, _, _, _)
BackSubstitute(U, y, x, i) ==
    IF i = 0 THEN x
    ELSE BackSubstitute(U, y,
             [x EXCEPT ![i] = Div(Sub(y[i], Dot(U[i], x, i + 1)), U[i][i])], i - 1)

\* np.linalg.solve(A, b): the solution, or LinAlgError("Singular matrix") when the
\* factorisation meets an exactly zero pivot.
linalg_solve(A, b) ==
    LET lu == Eliminate(A, b, 1)
    IN IF lu.singular THEN [err |-> "LinAlgError", x |-> <<>>]
       ELSE [err |-> "", x |-> BackSubstitute(lu.A, lu.b, ZeroVec(Len(A)), Len(A))]

\* ScatterU with the free-DOF map forgotten: "U_global[i] = U_reduced[i]".
RECURSIVE ScatterUnmapped(_, _, _, _)
ScatterUnmapped(U, free_dof, U_reduced, i) ==
    IF i > Len(free_dof) THEN U
    ELSE ScatterUnmapped([U EXCEPT ![i] = U_reduced[i]], free_dof, U_reduced, i + 1)

\* "for i, dof in enumerate(free_dof): U_global[dof] = U_reduced[i]", from i on.
RECURSIVE ScatterU(_, _, _, _)
ScatterU(U, free_dof, U_reduced, i) ==
    IF i > Len(free_dof) THEN U
    ELSE ScatterU([U EXCEPT ![free_dof[i] + 1] = U_reduced[i]], free_dof, U_reduced, i + 1)

\* Residual without the applied loads: K @ U.
ResidualStiffnessOnly(K, U, F) == [d \in 1..Len(F) |-> Dot(K[d], U, 1)] \o <<>>

\* K @ U - F
Residual(K, U, F) == [d \in 1..Len(F) |-> Sub(Dot(K[d], U, 1), F[d])] \o <<>>

\* Lines 249-255 of solve: R_global = K_global @ U_global - F_global and the pair
\* returned.
ReturnPair(K_global, F_global, U_global) ==
    [err |-> "", U |-> U_global, R |-> Residual(K_global, U_global, F_global)]

\* "U_global[dof] += U_reduced[i]", from i on.
RECURSIVE AccumulateU(_, _, _, _)
AccumulateU(U, free_dof, U_reduced, i) ==
    IF i > Len(free_dof) THEN U
    ELSE AccumulateU([U EXCEPT ![free_dof[i] + 1] = Add(@, U_reduced[i])],
                     free_dof, U_reduced, i + 1)

\* Recover as an incremental re-solve: the new displacements are added to the
\* ones the object already stores instead of replacing them.
RecoverAccumulating(K_global, F_global, free_dof, sol) ==
    IF sol.err # "" THEN [err |-> sol.err, U |-> <<>>, R |-> <<>>]
    ELSE ReturnPair(K_global, F_global,
                    AccumulateU(IF displacements.present
                                   /\ Len(displacements.v) = Len(F_global)
                                THEN displacements.v
                                ELSE ZeroVec(Len(F_global)),
                                free_dof, sol.x, 1))

\* Lines 241-247 of solve, after np.linalg.solve: its exception propagates;
\* otherwise U_reduced is scattered into a zero U_global.
Recover(K_global, F_global, free_dof, sol) ==
    IF sol.err # "" THEN [err |-> sol.err, U |-> <<>>, R |-> <<>>]
    ELSE ReturnPair(K_global, F_global,
                    ScatterU(ZeroVec(Len(F_global)), free_dof, sol.x, 1))

\* Lines 239-241 of solve: np.linalg.solve on the reduced system.
SolveReduced(K_global, F_global, bc) ==
    Recover(K_global, F_global, bc.free_dof, linalg_solve(bc.K_reduced, bc.F_reduced))

\* Lines 233-237 of solve, after assemble_global_matrix: its exception propagates;
\* otherwise the boundary conditions are applied.
Reduce(asm, sups) ==
    IF asm.err # "" THEN [err |-> asm.err, U |-> <<>>, R |-> <<>>]
    ELSE SolveReduced(asm.K, asm.F, apply_boundary_conditions(asm.K, asm.F, sups))

\* What ContinuousBridgeFEM.solve computes on a model: the exception it raises
\* (err), or the pair (U_global, R_global).
SolveModel(nds, elems, sups, lds) ==
    Reduce(assemble_global_matrix(nds, elems, lds), sups)

\* The loop of get_support_reactions from its idx-th read (support idx \div 3,
\* component idx % 3) on: the exception of the first read that fails, if any.  A
\* component whose flag is not set reads nothing ("... if constraints[i] else 0").
RECURSIVE ReadError(_, _, _)
ReadError(sups, R, idx) ==
    IF idx = 3 * Len(sups) THEN ""
    ELSE LET support == sups[idx \div 3 + 1]
             i == idx % 3
         IN IF support.constraints[i + 1] = 0 THEN ReadError(sups, R, idx + 1)
            ELSE IF ~R.present THEN "AttributeError"
            ELSE IF PyIndex(support.node * 3 + i, Len(R.v)) = -1 THEN "IndexError"
            ELSE ReadError(sups, R, idx + 1)

\* Masked without the mask: R at the DOF whatever the flag (0 where R has no
\* such entry).
Unmasked(support, R, i) ==
    IF R.present /\ PyIndex(support.node * 3 + i, Len(R.v)) # -1
    THEN At(R.v, PyIndex(support.node * 3 + i, Len(R.v)))
    ELSE Zero

\* "self.reactions[node_id*3+i] if constraints[i] else 0" of a read that succeeds.
Masked(support, R, i) ==
    IF support.constraints[i + 1] # 0
    THEN At(R.v, PyIndex(support.node * 3 + i, Len(R.v)))
    ELSE Zero

\* A summary with one entry per node: of the support entries of one node only
\* the first is reported.
reactions_summary_by_node(sups, R) ==
    LET first == SelectSeq([k \in 1..Len(sups) |-> k],
                           LAMBDA k : \A l \in 1..(k - 1) : sups[l].node # sups[k].node)
    IN [k \in 1..Len(first) |->
           [node |-> sups[first[k]].node,
            Rx |-> Masked(sups[first[k]], R, 0),
            Ry |-> Masked(sups[first[k]], R, 1),
            Mz |-> Masked(sups[first[k]], R, 2)]] \o <<>>

\* reactions_summary of get_support_reactions when every read succeeds.
reactions_summary(sups, R) ==
    [k \in 1..Len(sups) |->
        [node |-> sups[k].node,
         Rx |-> Masked(sups[k], R, 0),
         Ry |-> Masked(sups[k], R, 1),
         Mz |-> Masked(sups[k], R, 2)]] \o <<>>

(***************************************************************************)
(* The model object.  displacements and reactions are attributes that       *)
(* __init__ does not create: present is whether the attribute exists.       *)
(* ret is the outcome of the last call: the method, "ok" or the exception   *)
(* raised, and the value returned (as a sequence, <<>> for None).           *)
(***************************************************************************)
Absent == [present |-> FALSE, v |-> <<>>]

Present(v) == [present |-> TRUE, v |-> v]

Outcome(op, status, value) == [op |-> op, status |-> status, value |-> value]

\* ContinuousBridgeFEM.__init__
Init ==
    /\ nodes = <<>>
    /\ elements = <<>>
    /\ supports = <<>>
    /\ loads = <<>>
    /\ displacements = Absent
    /\ reactions = Absent
    /\ ret = Outcome("__init__", "ok", <<>>)

\* add_node that numbers the nodes from one: it returns len(self.nodes) taken
\* after the append.
add_node_from_one(x, y) ==
    /\ nodes' = Append(nodes, <<x, y>>)
    /\ ret' = Outcome("add_node", "ok", <<Len(nodes')>>)
    /\ UNCHANGED <<elements, supports, loads, displacements, reactions>>

\* ContinuousBridgeFEM.add_node
add_node(x, y) ==
    /\ nodes' = Append(nodes, <<x, y>>)
    /\ ret' = Outcome("add_node", "ok", <<Len(nodes')  - 1>>)
    /\ UNCHANGED <<elements, supports, loads, displacements, reactions>>

\* An element whose length is its horizontal projection: abs(p2[0] - p1[0]).
element_dict_projected(p1, p2, node1, node2, E, A, I) ==
    [nodes |-> <<node1, node2>>, length |-> Num(Abs(p2[1] - p1[1])),
     E |-> E, A |-> A, I |-> I]

\* The element dict add_element builds for two resolved node positions: the length
\* is np.sqrt((x2-x1)**2 + (y2-y1)**2).
element_dict(p1, p2, node1, node2, E, A, I) ==
    LET dx == p2[1] - p1[1]
        dy == p2[2] - p1[2]
    IN [nodes |-> <<node1, node2>>, length |-> Num(Sqrt(dx * dx + dy * dy)),
        E |-> E, A |-> A, I |-> I]

\* add_element that keeps self.elements ordered by first node id: the new
\* element is inserted before the stored elements of a greater first node.
add_element_sorted(node1, node2, E, A, I) ==
    /\ LET i1 == PyIndex(node1, Len(nodes))
           i2 == PyIndex(node2, Len(nodes))
           pos == Cardinality({k \in 1..Len(elements) : elements[k].nodes[1] <= node1})
       IN IF i1 = -1 \/ i2 = -1
          THEN /\ ret' = Outcome("add_element", "IndexError", <<>>)
               /\ UNCHANGED elements
          ELSE /\ elements' =
                     SubSeq(elements, 1, pos)
                     \o <<element_dict(At(nodes, i1), At(nodes, i2), node1, node2, E, A, I)>>
                     \o SubSeq(elements, pos + 1, Len(elements))
               /\ ret' = Outcome("add_element", "ok", <<pos>>)
    /\ UNCHANGED <<nodes, supports, loads, displacements, reactions>>

\* ContinuousBridgeFEM.add_element: self.nodes[node1] and self.nodes[node2] raise
\* IndexError before anything is stored.
add_element(node1, node2, E, A, I) ==
    /\ LET i1 == PyIndex(node1, Len(nodes))
           i2 == PyIndex(node2, Len(nodes))
       IN IF i1 = -1 \/ i2 = -1
          THEN /\ ret' = Outcome("add_element", "IndexError", <<>>)
               /\ UNCHANGED elements
          ELSE /\ elements' = Append(elements,
                        element_dict(At(nodes, i1), At(nodes, i2), node1, node2, E, A, I))
               /\ ret' = Outcome("add_element", "ok", <<Len(elements') - 1>>)
    /\ UNCHANGED <<nodes, supports, loads, displacements, reactions>>

\* ContinuousBridgeFEM.add_support
add_support(node_id, constraints) ==
    /\ supports' = Append(supports, [node |-> node_id, constraints |-> constraints])
    /\ ret' = Outcome("add_support", "ok", <<>>)
    /\ UNCHANGED <<nodes, elements, loads, displacements, reactions>>

\* ContinuousBridgeFEM.add_distributed_load
add_distributed_load(element_id, q) ==
    /\ loads' = Append(loads, [type |-> "distributed", element |-> element_id, value |-> q])
    /\ ret' = Outcome("add_distributed_load", "ok", <<>>)
    /\ UNCHANGED <<nodes, elements, supports, displacements, reactions>>

\* ContinuousBridgeFEM.add_point_load
add_point_load(node_id, fx, fy, mz) ==
    /\ loads' = Append(loads, [type |-> "point", node |-> node_id, value |-> <<fx, fy, mz>>])
    /\ ret' = Outcome("add_point_load", "ok", <<>>)
    /\ UNCHANGED <<nodes, elements, supports, displacements, reactions>>

\* The calls of Spec: each add_* method while its list is below its bound.
AddNode(x, y) == Len(nodes) < MaxNodes /\ add_node(x, y)

AddElement(node1, node2, E, A, I) ==
    Len(elements) < MaxElements /\ add_element(node1, node2, E, A, I)

AddSupport(node_id, constraints) ==
    Len(supports) < MaxSupports /\ add_support(node_id, constraints)

AddDistributedLoad(element_id, q) ==
    Len(loads) < MaxLoads /\ add_distributed_load(element_id, q)

AddPointLoad(node_id, fx, fy, mz) ==
    Len(loads) < MaxLoads /\ add_point_load(node_id, fx, fy, mz)

\* Store with a partial result: the displacement vector is stored before the
\* exception of a failing solve leaves the method.
StorePartial(s) ==
    IF s.err # ""
    THEN /\ ret' = Outcome("solve", s.err, <<>>)
         /\ displacements' = Present(s.U)
         /\ UNCHANGED reactions
    ELSE /\ displacements' = Present(s.U)
         /\ reactions' = Present(s.R)
         /\ ret' = Outcome("solve", "ok", <<s.U, s.R>>)

\* Store with the results dropped when solve raises.
StoreInvalidating(s) ==
    IF s.err # ""
    THEN /\ ret' = Outcome("solve", s.err, <<>>)
         /\ displacements' = Absent
         /\ reactions' = Absent
    ELSE /\ displacements' = Present(s.U)
         /\ reactions' = Present(s.R)
         /\ ret' = Outcome("solve", "ok", <<s.U, s.R>>)

\* The effect of solve on the object given what it computed: an exception of the
\* assembly or of the linear solve leaves the object as it was; otherwise both
\* result attributes are set and the pair is returned.
Store(s) ==
    IF s.err # ""
    THEN /\ ret' = Outcome("solve", s.err, <<>>)
         /\ UNCHANGED <<displacements, reactions>>
    ELSE /\ displacements' = Present(s.U)
         /\ reactions' = Present(s.R)
         /\ ret' = Outcome("solve", "ok", <<s.U, s.R>>)

\* solve that consumes the loads: it leaves self.loads empty, whatever its outcome.
SolveConsumingLoads ==
    /\ Store(SolveModel(nodes, elements, supports, loads))
    /\ loads' = <<>>
    /\ UNCHANGED <<nodes, elements, supports>>

\* ContinuousBridgeFEM.solve
Solve ==
    /\ Store(SolveModel(nodes, elements, supports, loads))
    /\ UNCHANGED <<nodes, elements, supports, loads>>

\* ContinuousBridgeFEM.get_support_reactions
GetSupportReactions ==
    /\ LET err == ReadError(supports, reactions, 0)
       IN IF err # ""
          THEN ret' = Outcome("get_support_reactions", err, <<>>)
          ELSE ret' = Outcome("get_support_reactions", "ok",
                              reactions_summary(supports, reactions))
    /\ UNCHANGED <<nodes, elements, supports, loads, displacements, reactions>>

\* ContinuousBridgeFEM.assemble_global_matrix called on the object: the pair
\* (K_global, F_global), or the IndexError of a load or element that names no DOF.
AssembleGlobalMatrix ==
    /\ LET asm == assemble_global_matrix(nodes, elements, loads)
       IN IF asm.err # ""
          THEN ret' = Outcome("assemble_global_matrix", asm.err, <<>>)
          ELSE ret' = Outcome("assemble_global_matrix", "ok", <<asm.K, asm.F>>)
    /\ UNCHANGED <<nodes, elements, supports, loads, displacements, reactions>>

\* ContinuousBridgeFEM.apply_boundary_conditions(K, F) called on the object, as
\* solve calls it: with the pair assemble_global_matrix has just returned.
ApplyBoundaryConditions ==
    /\ ret.op = "assemble_global_matrix"
    /\ ret.status = "ok"
    /\ LET bc == apply_boundary_conditions(ret.value[1], ret.value[2], supports)
       IN ret' = Outcome("apply_boundary_conditions", "ok",
                         <<bc.K_reduced, bc.F_reduced, bc.free_dof>>)
    /\ UNCHANGED <<nodes, elements, supports, loads, displacements, reactions>>

(***************************************************************************)
(* analyze_continuous_bridge_demo: the worked three-span bridge.  The       *)
(* function builds its own ContinuousBridgeFEM, solves it and returns the   *)
(* reaction magnitudes with the balance check.  Forces are in MN here (the  *)
(* source uses N): E = 34500e6 Pa is 34500 MN/m2, 26.25e3 N/m is 21/800     *)
(* MN/m, 250e3 N is 1/4 MN; balance_error and ratio are ratios of forces    *)
(* and do not depend on the unit.                                           *)
(***************************************************************************)
demo_spans == <<20, 25, 20>>

demo_E == Num(34500)

demo_A == Norm(45, 100)

demo_I == Norm(82, 1000)

\* sum(v[1..n])
RECURSIVE SumTo(_, _)
SumTo(v, n) == IF n = 0 THEN 0 ELSE SumTo(v, n - 1) + v[n]

\* x_coords = [0], then each span appended to the last coordinate.
x_coords == [i \in 1..(Len(demo_spans) + 1) |-> SumTo(demo_spans, i - 1)] \o <<>>

dead_load == Norm(1125, 100000)

live_load == Norm(15, 1000)

total_distributed == Add(dead_load, live_load)

vehicle_load == Norm(250, 1000)

\* The model the demo builds: a node per coordinate, an element per span, a pin
\* [1, 1, 0] at every node, the distributed load on every element and half the
\* vehicle load at nodes 1 and 2.
demo_nodes == [i \in 1..Len(x_coords) |-> <<x_coords[i], 0>>] \o <<>>

demo_elements ==
    [i \in 1..(Len(demo_nodes) - 1) |->
        element_dict(demo_nodes[i], demo_nodes[i + 1], i - 1, i, demo_E, demo_A, demo_I)] \o <<>>

demo_supports ==
    [i \in 1..Len(demo_nodes) |-> [node |-> i - 1, constraints |-> <<1, 1, 0>>]] \o <<>>

demo_loads ==
    [i \in 1..Len(demo_elements) |->
        [type |-> "distributed", element |-> i - 1, value |-> Neg(total_distributed)]]
    \o << [type |-> "point", node |-> 1,
           value |-> <<Zero, Div(Neg(vehicle_load), Num(2)), Zero>>],
          [type |-> "point", node |-> 2,
           value |-> <<Zero, Div(Neg(vehicle_load), Num(2)), Zero>>] >>

\* U, R = bridge.solve()
demo_solve == SolveModel(demo_nodes, demo_elements, demo_supports, demo_loads)

\* reaction_values: abs(reaction['Ry']) of every entry of get_support_reactions().
reaction_values(summary) == [i \in 1..Len(summary) |-> FloatAbs(summary[i].Ry)] \o <<>>

\* The running sum "total_reaction += ry" over values[1..n].
RECURSIVE FloatSumTo(_, _)
FloatSumTo(v, n) == IF n = 0 THEN Zero ELSE Add(FloatSumTo(v, n - 1), v[n])

total_reaction(values) == FloatSumTo(values, Len(values))

total_load ==
    Add(Mul(total_distributed, Num(SumTo(demo_spans, Len(demo_spans)))), vehicle_load)

\* abs(total_reaction - total_load) / total_load * 100
balance_error(reaction, load) == Mul(Div(FloatAbs(Sub(reaction, load)), load), Num(100))

\* middle_reaction / end_reaction
ratio(values) == Div(Add(values[2], values[3]), Add(values[1], values[4]))

\* The dict the demo returns.
demo_results(values, reaction, load) ==
    [reactions |-> values,
     total_reaction |-> reaction,
     total_load |-> load,
     balance_error |-> balance_error(reaction, load),
     ratio |-> ratio(values)]

\* Lines 351-391 of the demo, from the list get_support_reactions() returned.
demo_summary(values) == demo_results(values, total_reaction(values), total_load)

\* Lines 344-391 of the demo, from what solve() computed: its exception
\* propagates; otherwise reactions = bridge.get_support_reactions() is summed up.
demo_return(s) ==
    IF s.err # ""
    THEN Outcome("analyze_continuous_bridge_demo", s.err, <<>>)
    ELSE Outcome("analyze_continuous_bridge_demo", "ok",
                 <<demo_summary(reaction_values(
                       reactions_summary(demo_supports, Present(s.R))))>>)

\* analyze_continuous_bridge_demo().  The object of the caller is not touched.
AnalyzeContinuousBridgeDemo ==
    /\ ret' = demo_return(demo_solve)
    /\ UNCHANGED <<nodes, elements, supports, loads, displacements, reactions>>

(***************************************************************************)
(* The calls the model draws.                                               *)
(***************************************************************************)
\* add_node(x, y): two positions, 2 apart.
Positions == {<<0, 0>>, <<2, 0>>}

\* add_element(node1, node2, E, A, I): a first and a last node id, an id that wraps
\* around, an id past the last node; one section.
ElementEnds == {<<0, 1>>, <<-1, 0>>, <<0, MaxNodes>>}

MaterialE == Num(1)

SectionA == Num(2)

SectionI == Num(1)

\* add_support(node_id, constraints): a pin and a fixed support at node 0, a roller
\* at node 1 and a roller at a negative id.
SupportCalls ==
    { [node |-> 0, constraints |-> <<1, 1, 0>>],
      [node |-> 0, constraints |-> <<1, 1, 1>>],
      [node |-> 1, constraints |-> <<0, 1, 0>>],
      [node |-> -1, constraints |-> <<0, 1, 0>>] }

\* add_distributed_load(element_id, q)
DistributedLoadCalls ==
    { [element |-> 0, q |-> Num(-3)],
      [element |-> 1, q |-> Num(-3)] }

\* add_point_load(node_id, fx, fy, mz)
PointLoadCalls ==
    { [node |-> 1, value |-> <<Num(1), Num(-1), Zero>>],
      [node |-> MaxNodes, value |-> <<Zero, Num(-1), Zero>>] }

Next ==
    \/ \E p \in Positions : AddNode(p[1], p[2])
    \/ \E e \in ElementEnds : AddElement(e[1], e[2], MaterialE, SectionA, SectionI)
    \/ \E s \in SupportCalls : AddSupport(s.node, s.constraints)
    \/ \E l \in DistributedLoadCalls : AddDistributedLoad(l.element, l.q)
    \/ \E l \in PointLoadCalls : AddPointLoad(l.node, l.value[1], l.value[2], l.value[3])
    \/ Solve
    \/ GetSupportReactions

Spec == Init /\ [][Next]_vars

(***************************************************************************)
(* A second specification, of multi-span models: up to FrameNodes nodes    *)
(* laid out one step after the other as the demo lays out its x_coords,     *)
(* elements between consecutive nodes, several loads on one element or      *)
(* node.  The model is built and assembled, and the demo is run; solving   *)
(* is left to Spec.                                                         *)
(***************************************************************************)
FrameNodes == 3
FrameElements == 2
FrameSupports == 1
FrameLoads == 2

\* The step from one node to the next: a horizontal and a vertical one.
Steps == {<<2, 0>>, <<0, 3>>}

\* add_node at the origin, then one step beyond the last node.
FrameAddNode(step) ==
    /\ Len(nodes) < FrameNodes
    /\ IF nodes = <<>> THEN add_node(0, 0)
       ELSE add_node(nodes[Len(nodes)][1] + step[1], nodes[Len(nodes)][2] + step[2])

FrameEnds == {<<0, 1>>, <<1, 2>>}

FrameAddElement(node1, node2) ==
    /\ Len(elements) < FrameElements
    /\ add_element(node1, node2, MaterialE, SectionA, SectionI)

\* A fixed support at node 0 and a pin at node 1.
FrameSupportCalls ==
    { [node |-> 0, constraints |-> <<1, 1, 1>>],
      [node |-> 1, constraints |-> <<1, 1, 0>>] }

FrameAddSupport(node_id, constraints) ==
    /\ Len(supports) < FrameSupports
    /\ add_support(node_id, constraints)

FrameDistributedLoadCalls ==
    { [element |-> 0, q |-> Num(-3)],
      [element |-> 1, q |-> Num(2)] }

FrameAddDistributedLoad(element_id, q) ==
    /\ Len(loads) < FrameLoads
    /\ add_distributed_load(element_id, q)

FramePointLoadCalls ==
    { [node |-> 1, value |-> <<Num(1), Num(-1), Num(2)>>] }

FrameAddPointLoad(node_id, fx, fy, mz) ==
    /\ Len(loads) < FrameLoads
    /\ add_point_load(node_id, fx, fy, mz)

(***************************************************************************)
(* unified_bridge_analysis_test.py: BridgeParameters (default values, in N  *)
(* and m) and AnalysisResults (support_reactions in kN).                    *)
(***************************************************************************)
BridgeParameters_span_lengths == <<20, 25, 20>>

BridgeParameters_dead_load == Num(25000)

BridgeParameters_live_load == Num(10000)

BridgeParameters_point_load == Num(100000)

\* BridgeParameters.total_length
BridgeParameters_total_length ==
    Num(SumTo(BridgeParameters_span_lengths, Len(BridgeParameters_span_lengths)))

\* BridgeParameters.total_distributed_load: negative, i.e. downward.
BridgeParameters_total_distributed_load ==
    Neg(Add(BridgeParameters_dead_load, BridgeParameters_live_load))

\* AnalysisResults.total_reaction
AnalysisResults_total_reaction(support_reactions) ==
    IF support_reactions # <<>>
    THEN FloatSumTo(support_reactions, Len(support_reactions))
    ELSE Zero

\* AnalysisResults.equilibrium_error
AnalysisResults_equilibrium_error(support_reactions) ==
    LET total_applied ==
            Add(Mul(BridgeParameters_total_distributed_load, BridgeParameters_total_length),
                BridgeParameters_point_load)
    IN FloatAbs(Sub(AnalysisResults_total_reaction(support_reactions),
                    FloatAbs(total_applied)))

\* The support_reactions of a result: none (a failed analysis), four reactions
\* that sum to 2375 kN, four that sum to 2400 kN, and the four equal shares of
\* ScikitFEMAnalyzer (abs(total_distributed_load * total_length + point_load) / 4).
ReactionLists ==
    { <<>>,
      <<Norm(2375, 4), Norm(2375, 4), Norm(2375, 4), Norm(2375, 4)>>,
      <<Num(500), Num(700), Num(700), Num(500)>>,
      <<Num(543750), Num(543750), Num(543750), Num(543750)>> }

\* result.equilibrium_error read on an AnalysisResults of the given reactions.
EquilibriumError(support_reactions) ==
    /\ ret' = Outcome("equilibrium_error", "ok",
                      <<support_reactions,
                        AnalysisResults_equilibrium_error(support_reactions)>>)
    /\ UNCHANGED <<nodes, elements, supports, loads, displacements, reactions>>

FrameNext ==
    \/ \E st \in Steps : FrameAddNode(st)
    \/ \E e \in FrameEnds : FrameAddElement(e[1], e[2])
    \/ \E s \in FrameSupportCalls : FrameAddSupport(s.node, s.constraints)
    \/ \E l \in FrameDistributedLoadCalls : FrameAddDistributedLoad(l.element, l.q)
    \/ \E l \in FramePointLoadCalls :
          FrameAddPointLoad(l.node, l.value[1], l.value[2], l.value[3])
    \/ AssembleGlobalMatrix
    \/ ApplyBoundaryConditions
    \/ AnalyzeContinuousBridgeDemo
    \/ \E r \in ReactionLists : EquilibriumError(r)

FrameSpec == Init /\ [][FrameNext]_vars

(***************************************************************************)
(* A third specification, of every public method on small models: two      *)
(* nodes, up to two elements between them (in either orientation), one      *)
(* support, one load.                                                       *)
(***************************************************************************)
MethodNodes == 2
MethodElements == 2
MethodSupports == 1
MethodLoads == 1

MethodAddNode(step) ==
    /\ Len(nodes) < MethodNodes
    /\ IF nodes = <<>> THEN add_node(0, 0)
       ELSE add_node(nodes[Len(nodes)][1] + step[1], nodes[Len(nodes)][2] + step[2])

MethodEnds == {<<0, 1>>, <<1, 0>>}

MethodAddElement(node1, node2) ==
    /\ Len(elements) < MethodElements
    /\ add_element(node1, node2, MaterialE, SectionA, SectionI)

MethodAddSupport(node_id, constraints) ==
    /\ Len(supports) < MethodSupports
    /\ add_support(node_id, constraints)

MethodAddDistributedLoad(element_id, q) ==
    /\ Len(loads) < MethodLoads
    /\ add_distributed_load(element_id, q)

MethodAddPointLoad(node_id, fx, fy, mz) ==
    /\ Len(loads) < MethodLoads
    /\ add_point_load(node_id, fx, fy, mz)

MethodNext ==
    \/ \E st \in Steps : MethodAddNode(st)
    \/ \E e \in MethodEnds : MethodAddElement(e[1], e[2])
    \/ \E s \in FrameSupportCalls : MethodAddSupport(s.node, s.constraints)
    \/ \E l \in FrameDistributedLoadCalls : MethodAddDistributedLoad(l.element, l.q)
    \/ \E l \in FramePointLoadCalls :
          MethodAddPointLoad(l.node, l.value[1], l.value[2], l.value[3])
    \/ AssembleGlobalMatrix
    \/ ApplyBoundaryConditions
    \/ Solve
    \/ GetSupportReactions

MethodSpec == Init /\ [][MethodNext]_vars

(***************************************************************************)
(* Vocabulary of the claims.  The specification's error names are the       *)
(* exceptions the code raises in their place: UnsolvedStateError is the     *)
(* AttributeError of reading self.reactions before solve has set it,        *)
(* SingularSystem is numpy's LinAlgError, InvalidReference is IndexError.   *)
(***************************************************************************)
UnsolvedStateError == "AttributeError"

SingularSystem == "LinAlgError"

InvalidReference == "IndexError"

\* The last call was op and returned normally.
Returned(op) == ret.op = op /\ ret.status = "ok"

\* The node ids that identify a node of the current model.
NodeIds == 0..(Len(nodes) - 1)

\* The element ids that identify an element of the current model.
ElementIds == 0..(Len(elements) - 1)

\* The DOF indices of the current model.
Dofs == 0..(3 * Len(nodes) - 1)

\* The DOF indices some support of the model flags as constrained.
ConstrainedDofs ==
    UNION { {supports[k].node * 3 + i : i \in {j \in 0..2 : supports[k].constraints[j + 1] # 0}}
            : k \in 1..Len(supports) }

(***************************************************************************)
(* C1.  get_support_reactions() on a model on which solve() has not         *)
(* completed fails with UnsolvedStateError and returns no value.            *)
(* Stated of the state the call leaves: if no result has ever been stored   *)
(* and the last call was get_support_reactions, it raised.                  *)
(***************************************************************************)
C1_QueryBeforeSolveFails ==
    (ret.op = "get_support_reactions" /\ ~reactions.present)
        => ret.status = UnsolvedStateError

(***************************************************************************)
(* C2.  solve() on a model with at least one element and no support raises  *)
(* SingularSystem and returns no result.                                    *)
(***************************************************************************)
C2_FreeFloatingIsSingular ==
    (ret.op = "solve" /\ Len(elements) >= 1 /\ supports = <<>>)
        => ret.status = SingularSystem

(***************************************************************************)
(* C3.  add_element with a node id outside 0..N-1 (negative ids included)   *)
(* is rejected with InvalidReference at the call, and the element list is   *)
(* unchanged by the rejected call.                                          *)
(***************************************************************************)
C3_BadElementRejected ==
    [][\A e \in ElementEnds :
         (/\ AddElement(e[1], e[2], MaterialE, SectionA, SectionI)
          /\ ~(e[1] \in NodeIds /\ e[2] \in NodeIds))
            => (ret'.status = InvalidReference /\ elements' = elements)]_vars

(***************************************************************************)
(* C4.  add_distributed_load with an element id that does not exist and     *)
(* add_point_load with a node id that does not exist are rejected with      *)
(* InvalidReference at the add call, and the load list is unchanged by the  *)
(* rejected call.                                                           *)
(***************************************************************************)
C4_BadLoadRejected ==
    [][/\ \A l \in DistributedLoadCalls :
            (AddDistributedLoad(l.element, l.q) /\ l.element \notin ElementIds)
                => (ret'.status = InvalidReference /\ loads' = loads)
       /\ \A l \in PointLoadCalls :
            (AddPointLoad(l.node, l.value[1], l.value[2], l.value[3]) /\ l.node \notin NodeIds)
                => (ret'.status = InvalidReference /\ loads' = loads)]_vars

(***************************************************************************)
(* C5 as claimed.  After a successful solve(), for every support s of the   *)
(* model and every i whose flag s.constraints[i] is set, U[s.node*3 + i]    *)
(* is exactly zero.  U[...] is read as the code reads its arrays (PyIndex); *)
(* an index that denotes no entry of U is not held against the claim.       *)
(***************************************************************************)
C5_EverySupportDisplacementZero ==
    Returned("solve") =>
        \A k \in 1..Len(supports) : \A i \in 0..2 :
            LET d == PyIndex(supports[k].node * 3 + i, Len(displacements.v))
            IN (supports[k].constraints[i + 1] # 0 /\ d # -1)
                   => FloatEq(At(displacements.v, d), Zero)

(***************************************************************************)
(* C5, amended.  After a successful solve(), for every support s whose      *)
(* node id identifies a node of the model (0..N-1) and every i whose flag   *)
(* s.constraints[i] is set, U[s.node*3 + i] is exactly zero.                *)
(***************************************************************************)
C5_ConstrainedDisplacementZero ==
    Returned("solve") =>
        \A k \in 1..Len(supports) : \A i \in 0..2 :
            (supports[k].node \in NodeIds /\ supports[k].constraints[i + 1] # 0)
                => At(displacements.v, supports[k].node * 3 + i) = Zero

\* A solve has returned a displacement that is finite and not zero on a model with
\* a support at an existing node.
C5_Witness ==
    /\ Returned("solve")
    /\ \E k \in 1..Len(supports) : \E i \in 0..2 :
          supports[k].node \in NodeIds /\ supports[k].constraints[i + 1] # 0
    /\ \E d \in 1..Len(displacements.v) :
          IsFinite(displacements.v[d]) /\ displacements.v[d] # Zero

(***************************************************************************)
(* C6.  After a successful solve(), R[d] = (K.U - F)[d] is zero at every    *)
(* DOF d that no support constrains.                                        *)
(***************************************************************************)
C6_FreeReactionZero ==
    Returned("solve") =>
        \A d \in Dofs \ ConstrainedDofs : FloatEq(At(reactions.v, d), Zero)

(***************************************************************************)
(* C7.  The stiffness matrix assemble_global_matrix returns is symmetric,   *)
(* K[i][j] == K[j][i] for all i, j, for every model add_node and            *)
(* add_element can build.                                                   *)
(***************************************************************************)
C7_StiffnessSymmetric ==
    LET K == assemble_global_matrix(nodes, elements, <<>>).K
    IN \A i \in 1..Len(K) : \A j \in 1..Len(K) : FloatEq(K[i][j], K[j][i])

(***************************************************************************)
(* C8.  solve() is idempotent: a solve() that follows a successful solve()  *)
(* with no other call in between returns and stores the same displacement   *)
(* and reaction vectors, and what each returns is what it stores.           *)
(***************************************************************************)
C8_SolveIdempotent ==
    [][(Returned("solve") /\ ret'.op = "solve")
          => /\ ret' = ret
             /\ displacements' = displacements
             /\ reactions' = reactions
             /\ ret'.value = <<displacements'.v, reactions'.v>>]_vars

\* A successful solve with a displacement that is not zero has just returned; the
\* next solve() is the second in a row.
C8_Witness ==
    /\ Returned("solve")
    /\ \E d \in 1..Len(displacements.v) :
          IsFinite(displacements.v[d]) /\ displacements.v[d] # Zero
    /\ ret.value = <<displacements.v, reactions.v>>

(***************************************************************************)
(* C9.  The solver has two states, UNSOLVED (no result stored) and SOLVED   *)
(* (displacements and reactions both stored).  The only transition is       *)
(* UNSOLVED -> SOLVED, taken in one step by a solve() that returns; no      *)
(* call, add_* or a repeated or failing solve(), takes a SOLVED model back  *)
(* to UNSOLVED, and no call stores one of the two vectors without the       *)
(* other.                                                                   *)
(***************************************************************************)
SOLVED == displacements.present /\ reactions.present

UNSOLVED == ~displacements.present /\ ~reactions.present

C9_TwoStates ==
    [][/\ UNSOLVED' \/ SOLVED'
       /\ SOLVED => SOLVED'
       /\ (UNSOLVED /\ SOLVED') => (ret'.op = "solve" /\ ret'.status = "ok")
       /\ (UNSOLVED /\ ret'.op = "solve" /\ ret'.status = "ok") => SOLVED'
       /\ (UNSOLVED /\ ~(ret'.op = "solve" /\ ret'.status = "ok")) => UNSOLVED']_vars

\* A solve() has just failed on a SOLVED model, which is still SOLVED.
C9_Witness == SOLVED /\ ret.op = "solve" /\ ret.status # "ok"

(***************************************************************************)
(* C10.  get_support_reactions() reports only constrained components: for   *)
(* each support, Rx, Ry, Mz are R[node*3], R[node*3+1], R[node*3+2] where   *)
(* the support's own flag is set and exactly 0 where it is not, whatever R  *)
(* holds there.                                                             *)
(***************************************************************************)
Component(entry, i) == IF i = 0 THEN entry.Rx ELSE IF i = 1 THEN entry.Ry ELSE entry.Mz

C10_OnlyConstrainedComponents ==
    Returned("get_support_reactions") =>
        /\ Len(ret.value) = Len(supports)
        /\ \A k \in 1..Len(supports) : \A i \in 0..2 :
              IF supports[k].constraints[i + 1] # 0
              THEN Component(ret.value[k], i)
                       = At(reactions.v, PyIndex(supports[k].node * 3 + i, Len(reactions.v)))
              ELSE Component(ret.value[k], i) = Zero

\* get_support_reactions() has returned 0 for a component whose flag is not set
\* while R is not zero at that DOF.
C10_Witness ==
    /\ Returned("get_support_reactions")
    /\ reactions.present
    /\ \E k \in 1..Len(supports) : \E i \in 0..2 :
          LET d == PyIndex(supports[k].node * 3 + i, Len(reactions.v))
          IN /\ supports[k].constraints[i + 1] = 0
             /\ d # -1
             /\ IsFinite(At(reactions.v, d))
             /\ At(reactions.v, d) # Zero
             /\ Component(ret.value[k], i) = Zero

(***************************************************************************)
(* C11.  For any single-span simply-supported beam (2 nodes, 1 element      *)
(* joining them, a pin [1,1,0] at one end and a roller [0,1,0] at the       *)
(* other) under one uniform load q over its length L, after solve() the     *)
(* vertical reaction at each end equals qL/2 and the two sum to the total   *)
(* applied load qL.  The reactions balance the load, so they are compared   *)
(* in magnitude: R = K.U - F carries the sign opposite to q.                *)
(***************************************************************************)
SimplySupportedSpan ==
    /\ Len(nodes) = 2
    /\ Len(elements) = 1
    /\ {PyIndex(elements[1].nodes[1], 2), PyIndex(elements[1].nodes[2], 2)} = {0, 1}
    /\ Len(supports) = 2
    /\ \E pin \in {0, 1} :
          {supports[1], supports[2]}
              = { [node |-> pin, constraints |-> <<1, 1, 0>>],
                  [node |-> 1 - pin, constraints |-> <<0, 1, 0>>] }
    /\ Len(loads) = 1
    /\ loads[1].type = "distributed"
    /\ loads[1].element \in ElementIds

C11_SimplySupportedReactions ==
    (SimplySupportedSpan /\ Returned("solve")) =>
        LET qL == Mul(loads[1].value, elements[1].length)
            Ry0 == At(reactions.v, 1)
            Ry1 == At(reactions.v, 4)
        IN /\ FloatEq(FloatAbs(Ry0), FloatAbs(Div(qL, Num(2))))
           /\ FloatEq(FloatAbs(Ry1), FloatAbs(Div(qL, Num(2))))
           /\ FloatEq(FloatAbs(Add(Ry0, Ry1)), FloatAbs(qL))

(***************************************************************************)
(* C12.  For the worked three-span case (nodes at 0/20/45/65 m, a support   *)
(* [1,1,0] at every node, 26.25 kN/m on all three elements, 125 kN at       *)
(* nodes 1 and 2) the sum of the four reaction magnitudes |Ry| the demo     *)
(* computes equals the distributed load times the total length plus the     *)
(* point loads, 26.25 * 65 + 250 = 1956.25 kN: the demo's balance_error is  *)
(* within 0.01 (percent).                                                   *)
(***************************************************************************)
C12_DemoBalance ==
    ret.op = "analyze_continuous_bridge_demo" =>
        /\ ret.status = "ok"
        /\ LET results == ret.value[1]
           IN /\ Len(results.reactions) = 4
              /\ results.total_load = Norm(195625, 100000)
              /\ results.total_reaction
                    = Add(Add(results.reactions[1], results.reactions[2]),
                          Add(results.reactions[3], results.reactions[4]))
              /\ FloatEq(results.total_reaction, results.total_load)
              /\ FloatGt(Norm(1, 100), results.balance_error)

\* The demo has returned four reactions, none of them zero, the inner ones larger
\* than the outer ones.
C12_Witness ==
    /\ ret.op = "analyze_continuous_bridge_demo"
    /\ ret.status = "ok"
    /\ \A i \in 1..4 : IsFinite(ret.value[1].reactions[i]) /\ ret.value[1].reactions[i] # Zero
    /\ FloatGt(ret.value[1].reactions[2], ret.value[1].reactions[1])
    /\ demo_nodes = << <<0, 0>>, <<20, 0>>, <<45, 0>>, <<65, 0>> >>

(***************************************************************************)
(* C13.  When solve() fails because the reduced system is singular, the     *)
(* analysis aborts with no partial results: nothing is returned and the     *)
(* stored displacements and reactions are after the failed call what they   *)
(* were before it (absent if they were absent).                             *)
(***************************************************************************)
C13_SingularSolveAborts ==
    [][(ret'.op = "solve" /\ ret'.status = SingularSystem)
          => /\ ret'.value = <<>>
             /\ displacements' = displacements
             /\ reactions' = reactions]_vars

\* solve() has failed on a singular system on a model that holds the results of
\* an earlier solve, which are still stored.
C13_Witness ==
    /\ ret.op = "solve"
    /\ ret.status = SingularSystem
    /\ displacements.present
    /\ reactions.present
    /\ Len(displacements.v) > 0
    /\ Len(nodes) * 3 > Len(displacements.v)

(***************************************************************************)
(* C14.  apply_boundary_conditions returns as free DOFs exactly the set     *)
(* {0..3N-1} minus {s.node*3+i : s a support, s.constraints[i] set}, in     *)
(* ascending order without duplicates, also when several supports flag the  *)
(* same DOF or the same node; K_reduced and F_reduced are K and F           *)
(* restricted to those indices in that order.  Stated of what the method    *)
(* returns on the K and F assemble_global_matrix returns for the model.     *)
(***************************************************************************)
C14_FreeDofs ==
    LET asm == assemble_global_matrix(nodes, elements, loads)
    IN asm.err = "" =>
         LET bc == apply_boundary_conditions(asm.K, asm.F, supports)
             n == Len(bc.free_dof)
         IN /\ {bc.free_dof[a] : a \in 1..n} = Dofs \ ConstrainedDofs
            /\ \A a \in 1..n : \A b \in 1..n : a < b => bc.free_dof[a] < bc.free_dof[b]
            /\ Len(bc.K_reduced) = n
            /\ Len(bc.F_reduced) = n
            /\ \A a \in 1..n :
                  /\ Len(bc.K_reduced[a]) = n
                  /\ bc.F_reduced[a] = At(asm.F, bc.free_dof[a])
                  /\ \A b \in 1..n :
                        bc.K_reduced[a][b] = At(At(asm.K, bc.free_dof[a]), bc.free_dof[b])

\* solve() has applied the boundary conditions of two supports that flag the same
\* DOF of the same node, on a model that keeps free DOFs.
C14_Witness ==
    /\ ret.op = "solve"
    /\ Len(elements) = 1
    /\ Len(supports) = 2
    /\ supports[1].node = supports[2].node
    /\ supports[1] # supports[2]
    /\ \E i \in 1..3 : supports[1].constraints[i] # 0 /\ supports[2].constraints[i] # 0
    /\ Dofs \ ConstrainedDofs # {}
    /\ ConstrainedDofs \subseteq Dofs

(***************************************************************************)
(* C15.  After assemble_global_matrix, K has size 3N x 3N and K[a][b] is    *)
(* the sum, over all elements e and local index pairs (m, n) with           *)
(* map_e[m] = a and map_e[n] = b, of k_e[m][n], where map_e = [n1*3,        *)
(* n1*3+1, n1*3+2, n2*3, n2*3+1, n2*3+2]; the contributions of elements     *)
(* that share a node accumulate, and K does not depend on the order in      *)
(* which the elements were added.  map_e[m] = a is read as the array is     *)
(* indexed (PyIndex).                                                       *)
(***************************************************************************)
\* The local indices m (1..6) of an element that map to the global DOF a.
LocalAt(element, a, n_dof) ==
    {m \in 1..6 : PyIndex(dof_map(element)[m], n_dof) = a}

\* The sum of row[n] over the local indices n..6 that are in cols.
RECURSIVE RowSum(_, _, _)
RowSum(row, cols, n) ==
    IF n > 6 THEN Zero
    ELSE Add(IF n \in cols THEN row[n] ELSE Zero, RowSum(row, cols, n + 1))

\* The sum of k[m][n] over the local indices m in rows (from m on) and n in cols.
RECURSIVE SumOver(_, _, _, _)
SumOver(k, rows, cols, m) ==
    IF m > 6 THEN Zero
    ELSE Add(IF m \in rows THEN RowSum(k[m], cols, 1) ELSE Zero,
             SumOver(k, rows, cols, m + 1))

\* The sum of the contributions of elements i..Len(elems) to K[a][b].
RECURSIVE Contributions(_, _, _, _, _)
Contributions(elems, n_dof, a, b, i) ==
    IF i > Len(elems) THEN Zero
    ELSE LET rows == LocalAt(elems[i], a, n_dof)
             cols == LocalAt(elems[i], b, n_dof)
         IN Add(IF rows = {} \/ cols = {} THEN Zero
                ELSE SumOver(stiffness_matrix(elems[i].length, elems[i].E,
                                              elems[i].A, elems[i].I), rows, cols, 1),
                Contributions(elems, n_dof, a, b, i + 1))

\* The list in the opposite order.
Reverse(list) == [i \in 1..Len(list) |-> list[Len(list) + 1 - i]] \o <<>>

C15_StiffnessAccumulates ==
    Returned("assemble_global_matrix") =>
        LET K == ret.value[1]
            n_dof == 3 * Len(nodes)
        IN /\ Len(K) = n_dof
           /\ \A a \in 1..n_dof : Len(K[a]) = n_dof
           /\ \A a \in 1..n_dof : \A b \in 1..n_dof :
                 K[a][b] = Contributions(elements, n_dof, a - 1, b - 1, 1)
           /\ K = assemble_global_matrix(nodes, Reverse(elements), <<>>).K

\* assemble_global_matrix has returned on a model of two different elements that
\* share node 1: at its DOFs K holds the sum of two contributions.
C15_Witness ==
    /\ Returned("assemble_global_matrix")
    /\ Len(elements) = 2
    /\ elements[1].nodes = <<1, 2>>
    /\ elements[2].nodes = <<0, 1>>
    /\ elements[1].length # elements[2].length
    /\ ret.value[1][5][5] = Add(stiffness_matrix(elements[1].length, elements[1].E,
                                                 elements[1].A, elements[1].I)[2][2],
                                stiffness_matrix(elements[2].length, elements[2].E,
                                                 elements[2].A, elements[2].I)[5][5])
    /\ ret.value[1][5][5] # stiffness_matrix(elements[1].length, elements[1].E,
                                              elements[1].A, elements[1].I)[2][2]

(***************************************************************************)
(* C16.  After assemble_global_matrix, the load vector F (size 3N) is the   *)
(* sum of (a) each distributed load's 6 equivalent nodal loads scattered    *)
(* to the 6 DOFs of its element and (b) each point load's (fx, fy, mz)      *)
(* added at DOFs node*3, node*3+1, node*3+2; several loads on the same      *)
(* element or node accumulate, and F does not depend on the order of the    *)
(* add_distributed_load / add_point_load calls.                             *)
(***************************************************************************)
\* What one load adds to F[d].
LoadAt(elems, n_dof, load, d) ==
    IF load.type = "distributed"
    THEN LET element == At(elems, PyIndex(load.element, Len(elems)))
         IN RowSum(equivalent_nodal_loads(element.length, load.value),
                   LocalAt(element, d, n_dof), 1)
    ELSE Add(IF PyIndex(load.node * 3, n_dof) = d THEN load.value[1] ELSE Zero,
             Add(IF PyIndex(load.node * 3 + 1, n_dof) = d THEN load.value[2] ELSE Zero,
                 IF PyIndex(load.node * 3 + 2, n_dof) = d THEN load.value[3] ELSE Zero))

\* The sum of what loads i..Len(lds) add to F[d].
RECURSIVE LoadSum(_, _, _, _, _)
LoadSum(elems, n_dof, lds, d, i) ==
    IF i > Len(lds) THEN Zero
    ELSE Add(LoadAt(elems, n_dof, lds[i], d), LoadSum(elems, n_dof, lds, d, i + 1))

C16_LoadsAccumulate ==
    Returned("assemble_global_matrix") =>
        LET F == ret.value[2]
            n_dof == 3 * Len(nodes)
        IN /\ Len(F) = n_dof
           /\ \A d \in 1..n_dof : F[d] = LoadSum(elements, n_dof, loads, d - 1, 1)
           /\ F = assemble_global_matrix(nodes, elements, Reverse(loads)).F

\* assemble_global_matrix has returned on a model with a distributed load on
\* element (0, 1) and a point load at its node 1: F at the vertical DOF of node 1
\* is the sum of the two, and is neither of them.
C16_Witness ==
    /\ Returned("assemble_global_matrix")
    /\ Len(elements) >= 1
    /\ elements[1].nodes = <<0, 1>>
    /\ Len(loads) = 2
    /\ loads[1].type = "distributed"
    /\ loads[1].element = 0
    /\ loads[2].type = "point"
    /\ loads[2].node = 1
    /\ ret.value[2][5] = Add(Div(Mul(loads[1].value, elements[1].length), Num(2)),
                             loads[2].value[2])
    /\ ret.value[2][5] # loads[2].value[2]
    /\ ret.value[2][5] # Div(Mul(loads[1].value, elements[1].length), Num(2))

(***************************************************************************)
(* C17.  Elements are immutable once created: the node pair, length, E, A   *)
(* and I stored by add_element never change afterwards; no later add_node,  *)
(* add_element, add_support, add_distributed_load, add_point_load, solve()  *)
(* or get_support_reactions() call modifies an existing element; and the    *)
(* length is the Euclidean distance between the two nodes' positions at     *)
(* creation time.                                                           *)
(***************************************************************************)
C17_ElementsImmutable ==
    [][/\ Len(elements') >= Len(elements)
       /\ \A i \in 1..Len(elements) : elements'[i] = elements[i]
       /\ Len(elements') > Len(elements) =>
             LET e == elements'[Len(elements')]
                 p1 == At(nodes, PyIndex(e.nodes[1], Len(nodes)))
                 p2 == At(nodes, PyIndex(e.nodes[2], Len(nodes)))
             IN /\ Len(elements') = Len(elements) + 1
                /\ IsFinite(e.length)
                /\ e.length[1] >= 0
                /\ Mul(e.length, e.length)
                      = Num((p2[1] - p1[1]) * (p2[1] - p1[1])
                            + (p2[2] - p1[2]) * (p2[2] - p1[2]))]_vars

\* solve() has returned on a model of two elements created in opposite
\* orientations along a vertical step of 3: both are as add_element stored them.
C17_Witness ==
    /\ Returned("solve")
    /\ Len(elements) = 2
    /\ elements[1].nodes = <<1, 0>>
    /\ elements[2].nodes = <<0, 1>>
    /\ elements[1].length = Num(3)
    /\ nodes = << <<0, 0>>, <<0, 3>> >>

(***************************************************************************)
(* C18.  equivalent_nodal_loads(q) for an element of length L returns       *)
(* [0, qL/2, qL^2/12, 0, qL/2, -qL^2/12]: both axial components are zero,   *)
(* the two end shears are qL/2 each and sum to the total load qL, and the   *)
(* end moments are qL^2/12 at node 1 and -qL^2/12 at node 2 (equal and      *)
(* opposite).  Checked for every distributed load of the model on its       *)
(* element, and on the vector F assemble_global_matrix returns when that    *)
(* load is the only one.                                                    *)
(***************************************************************************)
\* The distributed loads of the model that name a stored element.
DistributedLoads ==
    {k \in 1..Len(loads) :
        /\ loads[k].type = "distributed"
        /\ PyIndex(loads[k].element, Len(elements)) # -1}

\* [0, qL/2, qL^2/12, 0, qL/2, -qL^2/12] as fractions of the integers of q and L.
ExpectedNodalLoads(L, q) ==
    << Zero,
       Norm(q[1] * L[1], 2 * q[2] * L[2]),
       Norm(q[1] * L[1] * L[1], 12 * q[2] * L[2] * L[2]),
       Zero,
       Norm(q[1] * L[1], 2 * q[2] * L[2]),
       Norm(-(q[1] * L[1] * L[1]), 12 * q[2] * L[2] * L[2]) >>

C18_EquivalentNodalLoads ==
    \A k \in DistributedLoads :
        LET element == At(elements, PyIndex(loads[k].element, Len(elements)))
            L == element.length
            q == loads[k].value
            f == equivalent_nodal_loads(L, q)
        IN /\ f = ExpectedNodalLoads(L, q)
           /\ f[1] = Zero /\ f[4] = Zero
           /\ f[2] = f[5]
           /\ Add(f[2], f[5]) = Norm(q[1] * L[1], q[2] * L[2])
           /\ f[6] = Neg(f[3])
           /\ (Returned("assemble_global_matrix") /\ Len(loads) = 1
               /\ element.nodes[1] # element.nodes[2]) =>
                 \A j \in 1..6 :
                     At(ret.value[2],
                        3 * PyIndex(element.nodes[IF j <= 3 THEN 1 ELSE 2], Len(nodes))
                        + ((j - 1) % 3))
                       = f[j]

\* assemble_global_matrix has returned F for a model whose only load is q = -3
\* on an element of length 2: end shears -3, end moments -1 and +1.
C18_Witness ==
    /\ Returned("assemble_global_matrix")
    /\ Len(loads) = 1
    /\ DistributedLoads = {1}
    /\ loads[1].value = Num(-3)
    /\ At(elements, PyIndex(loads[1].element, Len(elements))).length = Num(2)
    /\ \E n \in 0..(Len(nodes) - 2) :
          /\ At(ret.value[2], 3 * n + 1) = Num(-3)
          /\ At(ret.value[2], 3 * n + 2) = Num(-1)
          /\ At(ret.value[2], 3 * n + 4) = Num(-3)
          /\ At(ret.value[2], 3 * n + 5) = Num(1)

(***************************************************************************)
(* C19.  The 6x6 element stiffness matrix models no axial-bending coupling: *)
(* every entry k[i][j] with i in {0,3} and j in {1,2,4,5}, or i in          *)
(* {1,2,4,5} and j in {0,3}, is zero; the axial entries are +EA/L at (0,0), *)
(* (3,3) and -EA/L at (0,3), (3,0); the bending block occupies indices      *)
(* {1,2,4,5}; and the matrix is symmetric with rows 1 and 4 (and rows 0 and *)
(* 3) summing to zero column by column.  Stated of the matrix of every      *)
(* stored element.                                                          *)
(***************************************************************************)
AxialDofs == {0, 3}

BendingDofs == {1, 2, 4, 5}

\* The properties of the stiffness matrix of one stored element; == and the sums
\* are those of the floats.
Uncoupled(element) ==
    LET k == stiffness_matrix(element.length, element.E, element.A, element.I)
        EA_L == Div(Mul(element.E, element.A), element.length)
    IN /\ \A i \in AxialDofs, j \in BendingDofs :
             At(At(k, i), j) = Zero /\ At(At(k, j), i) = Zero
       /\ FloatEq(At(At(k, 0), 0), EA_L) /\ FloatEq(At(At(k, 3), 3), EA_L)
       /\ FloatEq(At(At(k, 0), 3), Neg(EA_L)) /\ FloatEq(At(At(k, 3), 0), Neg(EA_L))
       /\ \A i \in BendingDofs, j \in BendingDofs : At(At(k, i), j) # Zero
       /\ \A i \in 0..5, j \in 0..5 : FloatEq(At(At(k, i), j), At(At(k, j), i))
       /\ \A j \in 0..5 :
             /\ FloatEq(Add(At(At(k, 1), j), At(At(k, 4), j)), Zero)
             /\ FloatEq(Add(At(At(k, 0), j), At(At(k, 3), j)), Zero)

C19_NoAxialBendingCoupling ==
    \A i \in 1..Len(elements) : Uncoupled(elements[i])

(***************************************************************************)
(* C20.  solve(), assemble_global_matrix, apply_boundary_conditions and     *)
(* get_support_reactions never mutate the model definition: the node,       *)
(* element, support and load lists are identical before and after each of   *)
(* these calls, whatever its outcome; solve() writes only the stored        *)
(* displacement and reaction vectors, and the other three write nothing.    *)
(***************************************************************************)
ReadOnlyMethods ==
    {"solve", "assemble_global_matrix", "apply_boundary_conditions", "get_support_reactions"}

C20_DefinitionNotMutated ==
    [][ret'.op \in ReadOnlyMethods =>
          /\ nodes' = nodes
          /\ elements' = elements
          /\ supports' = supports
          /\ loads' = loads
          /\ ret'.op # "solve" => displacements' = displacements /\ reactions' = reactions]_vars

\* solve() has returned with results stored on a model that still holds its two
\* nodes, an element, a support and a load.
C20_Witness ==
    /\ Returned("solve")
    /\ displacements.present
    /\ Len(nodes) = 2
    /\ Len(elements) >= 1
    /\ Len(supports) = 1
    /\ Len(loads) = 1

(***************************************************************************)
(* C21.  AnalysisResults.equilibrium_error is the absolute difference       *)
(* between the sum of the support reactions and the magnitude of the total  *)
(* applied load of the default bridge (distributed load over the total      *)
(* length plus the point load, both downward), in the unit of               *)
(* support_reactions (kN): it is |sum - 2375| and is 0 exactly when the     *)
(* reactions sum to 35 kN/m x 65 m + 100 kN = 2375 kN.                      *)
(***************************************************************************)
TotalAppliedLoad_kN == 35 * 65 + 100

C21_EquilibriumError ==
    ret.op = "equilibrium_error" =>
        LET total == AnalysisResults_total_reaction(ret.value[1])
        IN /\ ret.value[2] = FloatAbs(Sub(total, Num(TotalAppliedLoad_kN)))
           /\ ret.value[2] = Zero <=> total = Num(TotalAppliedLoad_kN)

(***************************************************************************)
(* C22.  Ids are stable 0-based indices: the k-th add_node call             *)
(* (k = 0, 1, 2, ...) returns k and the k-th add_element call that succeeds *)
(* returns k; ids are never reused or renumbered, so an id returned earlier *)
(* denotes the same node/element in every later state; and the DOF index    *)
(* node_id*3 + i is injective over the valid (node_id, i).  Every add_node  *)
(* call and every successful add_element call appends one entry, so the     *)
(* number of earlier such calls is the length of the list.                  *)
(***************************************************************************)
C22_StableIds ==
    [][/\ Len(nodes') >= Len(nodes)
       /\ \A id \in NodeIds : At(nodes', id) = At(nodes, id)
       /\ Len(elements') >= Len(elements)
       /\ \A id \in ElementIds : At(elements', id) = At(elements, id)
       /\ ret'.op = "add_node" =>
             /\ ret'.status = "ok"
             /\ ret'.value = <<Len(nodes)>>
             /\ Len(nodes') = Len(nodes) + 1
       /\ (ret'.op = "add_element" /\ ret'.status = "ok") =>
             /\ ret'.value = <<Len(elements)>>
             /\ Len(elements') = Len(elements) + 1
       /\ (ret'.op = "add_element" /\ ret'.status # "ok") => elements' = elements
       /\ \A n \in 0..(Len(nodes') - 1), m \in 0..(Len(nodes') - 1), i \in 0..2, j \in 0..2 :
             n * 3 + i = m * 3 + j => n = m /\ i = j]_vars

\* The second successful add_element of a two-node model has returned id 1, after
\* the nodes were numbered 0 and 1.
C22_Witness ==
    /\ ret = Outcome("add_element", "ok", <<1>>)
    /\ Len(elements) = 2
    /\ Len(nodes) = 2

(***************************************************************************)
(* C23.  In every reachable state in which results are stored, the stored   *)
(* displacement and reaction vectors describe the current model: they have  *)
(* length 3 N for the current node count N and satisfy R = K.U - F for the  *)
(* currently defined elements, supports and loads; an add_node,             *)
(* add_element, add_support, add_distributed_load or add_point_load call    *)
(* made after solve() never leaves stale results readable.                  *)
(***************************************************************************)
C23_ResultsDescribeModel ==
    SOLVED =>
        /\ Len(displacements.v) = 3 * Len(nodes)
        /\ Len(reactions.v) = 3 * Len(nodes)
        /\ LET a == assemble_global_matrix(nodes, elements, loads)
           IN /\ a.err = ""
              /\ reactions.v = Residual(a.K, displacements.v, a.F)

(***************************************************************************)
(* C24.  Global force equilibrium: for any successfully solved model in     *)
(* which each node carries at most one support entry, the sum of the Ry     *)
(* values returned by get_support_reactions() equals minus the total        *)
(* applied vertical load (sum over distributed loads of q L plus sum of     *)
(* point-load fy), and the sum of the Rx values equals minus the sum of     *)
(* point-load fx.  Stated of a get_support_reactions() that reads the       *)
(* results of the model as it is.                                           *)
(***************************************************************************)
\* The stored results are those solve() gives on the model as it is now.
ResultsCurrent ==
    /\ SOLVED
    /\ LET s == SolveModel(nodes, elements, supports, loads)
       IN s.err = "" /\ s.U = displacements.v /\ s.R = reactions.v

\* No two support entries are on one node; an id that np indexing wraps around
\* denotes the node it reads.
OneSupportPerNode ==
    \A k \in 1..Len(supports), l \in 1..Len(supports) :
        k # l => PyIndex(supports[k].node, Len(nodes)) # PyIndex(supports[l].node, Len(nodes))

\* The sum over the first n entries of a reactions summary of component i.
RECURSIVE SumComponent(_, _, _)
SumComponent(summary, i, n) ==
    IF n = 0 THEN Zero ELSE Add(SumComponent(summary, i, n - 1), Component(summary[n], i))

\* The applied load in direction i (0: x, 1: y) of the first n loads: q L in y for
\* a distributed load, fx or fy for a point load.
RECURSIVE AppliedLoad(_, _)
AppliedLoad(i, n) ==
    IF n = 0 THEN Zero
    ELSE Add(AppliedLoad(i, n - 1),
             IF loads[n].type = "distributed"
             THEN IF i = 1
                  THEN Mul(loads[n].value,
                           At(elements, PyIndex(loads[n].element, Len(elements))).length)
                  ELSE Zero
             ELSE loads[n].value[i + 1])

C24_GlobalEquilibrium ==
    (Returned("get_support_reactions") /\ ResultsCurrent /\ OneSupportPerNode) =>
        /\ FloatEq(SumComponent(ret.value, 1, Len(ret.value)), Neg(AppliedLoad(1, Len(loads))))
        /\ FloatEq(SumComponent(ret.value, 0, Len(ret.value)), Neg(AppliedLoad(0, Len(loads))))

(***************************************************************************)
(* C25.  get_support_reactions() returns exactly one entry per add_support  *)
(* call, in call order, each carrying that call's node id and masked by     *)
(* that call's own constraint flags; a node given two support entries       *)
(* appears twice (its reactions are not merged or de-duplicated).  Every    *)
(* add_support call appends its (node, constraints) to the support list and *)
(* nothing else changes that list, so the list is the calls in order.       *)
(***************************************************************************)
C25_OneEntryPerSupportCall ==
    [][/\ IF ret'.op = "add_support"
          THEN /\ ret'.status = "ok"
               /\ Len(supports') = Len(supports) + 1
               /\ SubSeq(supports', 1, Len(supports)) = supports
          ELSE supports' = supports
       /\ (ret'.op = "get_support_reactions" /\ ret'.status = "ok") =>
             /\ Len(ret'.value) = Len(supports)
             /\ \A k \in 1..Len(supports) :
                   /\ ret'.value[k].node = supports[k].node
                   /\ \A i \in 0..2 :
                         Component(ret'.value[k], i) =
                             IF supports[k].constraints[i + 1] # 0
                             THEN At(reactions.v,
                                     PyIndex(supports[k].node * 3 + i, Len(reactions.v)))
                             ELSE Zero]_vars

\* Node 0 was given a pin and then a fixed support: it is reported twice, in that
\* order, the first entry without and the second with the fixing moment.
C25_Witness ==
    /\ Returned("get_support_reactions")
    /\ Len(ret.value) = 2
    /\ supports = << [node |-> 0, constraints |-> <<1, 1, 0>>],
                     [node |-> 0, constraints |-> <<1, 1, 1>>] >>
    /\ ret.value[1].node = 0
    /\ ret.value[2].node = 0
    /\ ret.value[1].Mz = Zero
    /\ IsFinite(ret.value[2].Mz)
    /\ ret.value[2].Mz # Zero
    /\ ret.value[1].Ry = ret.value[2].Ry

(***************************************************************************)
(* C26.  A point load applied at a DOF that is constrained by a support     *)
(* does not affect any displacement: two models identical except for a load *)
(* component at a constrained DOF solve to the same U, and their reactions  *)
(* differ only at that DOF, by exactly minus the load component             *)
(* (R = K.U - F).  The solved model is compared with the model whose load   *)
(* component at the constrained DOF is zero.                                *)
(***************************************************************************)
\* The DOFs apply_boundary_conditions removes: flagged by a support, in 0..3N-1.
RemovedDofs == ConstrainedDofs \cap Dofs

\* The (load, component) pairs of the point loads with a non-zero component on a
\* removed DOF, with the DOF F_global receives the component at.
LoadsOnRemovedDofs ==
    { p \in (1..Len(loads)) \X (0..2) :
        /\ loads[p[1]].type = "point"
        /\ loads[p[1]].value[p[2] + 1] # Zero
        /\ PyIndex(loads[p[1]].node * 3 + p[2], 3 * Len(nodes)) \in RemovedDofs }

\* The loads without component i of load k.
WithoutComponent(k, i) ==
    [loads EXCEPT ![k].value[i + 1] = Zero]

C26_LoadOnConstrainedDof ==
    Returned("solve") =>
        \A p \in LoadsOnRemovedDofs :
            LET other == SolveModel(nodes, elements, supports, WithoutComponent(p[1], p[2]))
                dof == PyIndex(loads[p[1]].node * 3 + p[2], 3 * Len(nodes))
            IN /\ other.err = ""
               /\ \A d \in Dofs :
                     /\ FloatEq(At(other.U, d), At(displacements.v, d))
                     /\ FloatEq(At(reactions.v, d),
                                IF d = dof
                                THEN Sub(At(other.R, d), loads[p[1]].value[p[2] + 1])
                                ELSE At(other.R, d))

(***************************************************************************)
(* C27.  When every DOF of the model is constrained by supports (the        *)
(* free-DOF set is empty), solve() succeeds without error, returns an       *)
(* all-zero displacement vector, and the reaction vector equals -F at every *)
(* DOF.  Stated of every solve() on a model of at least one node.           *)
(***************************************************************************)
C27_FullyConstrained ==
    (ret.op = "solve" /\ nodes # <<>> /\ RemovedDofs = Dofs) =>
        /\ ret.status = "ok"
        /\ LET a == assemble_global_matrix(nodes, elements, loads)
           IN \A d \in Dofs :
                 /\ At(ret.value[1], d) = Zero
                 /\ FloatEq(At(ret.value[2], d), Neg(At(a.F, d)))

(***************************************************************************)
(* C28.  add_support performs no validation: a support whose node id is     *)
(* outside 0..N-1 at solve time (negative or >= N) is accepted without      *)
(* error, and apply_boundary_conditions removes no DOF for it, so solve()   *)
(* proceeds exactly as if that support had not been added: the same free    *)
(* DOFs and the same outcome (the same U and R, or the same error).         *)
(***************************************************************************)
\* The supports without the k-th entry.
WithoutSupport(k) == SubSeq(supports, 1, k - 1) \o SubSeq(supports, k + 1, Len(supports))

\* The positions of the support entries whose node id is no node of the model.
SupportsOffModel == {k \in 1..Len(supports) : supports[k].node \notin NodeIds}

C28_SupportOffModelIgnored ==
    /\ ret.op = "add_support" =>
          ret.status = "ok" /\ supports # <<>>
    /\ ret.op = "solve" =>
          \A k \in SupportsOffModel :
              LET other == SolveModel(nodes, elements, WithoutSupport(k), loads)
                  free_dof == RemoveConstrained(Range(3 * Len(nodes)), supports, 0)
              IN /\ free_dof = RemoveConstrained(Range(3 * Len(nodes)), WithoutSupport(k), 0)
                 /\ IF other.err # ""
                    THEN ret.status = other.err /\ ret.value = <<>>
                    ELSE ret.status = "ok" /\ ret.value = <<other.U, other.R>>

\* A span of length 2 fixed at node 0, with a load and a roller entry at node
\* id -1: solve() has returned and node 1 has moved in y, as on the cantilever.
C28_Witness ==
    /\ Returned("solve")
    /\ Len(nodes) = 2
    /\ supports = << [node |-> 0, constraints |-> <<1, 1, 1>>],
                     [node |-> -1, constraints |-> <<0, 1, 0>>] >>
    /\ SupportsOffModel = {2}
    /\ Len(elements) = 1
    /\ elements[1].length = Num(2)
    /\ loads # <<>>
    /\ IsFinite(At(displacements.v, 4))
    /\ At(displacements.v, 4) # Zero

(***************************************************************************)
(* C29.  Every element stored in a model has strictly positive length (its  *)
(* two end nodes are distinct and at different positions), so computing its *)
(* stiffness matrix and equivalent nodal loads during assembly never        *)
(* divides by zero: every entry of its stiffness matrix is finite.          *)
(***************************************************************************)
C29_PositiveLength ==
    \A k \in 1..Len(elements) :
        LET element == elements[k]
            n1 == PyIndex(element.nodes[1], Len(nodes))
            n2 == PyIndex(element.nodes[2], Len(nodes))
            k_local == stiffness_matrix(element.length, element.E, element.A, element.I)
        IN /\ FloatGt(element.length, Zero)
           /\ n1 # n2
           /\ At(nodes, n1) # At(nodes, n2)
           /\ \A i \in 1..6, j \in 1..6 : IsFinite(k_local[i][j])

(***************************************************************************)
(* C30.  Assembly applies no rotation from element-local to global axes:    *)
(* the assembled K and F depend on node coordinates only through each       *)
(* element's length, so two models with the same connectivity, element      *)
(* lengths, E, A, I, supports and loads but different element orientations  *)
(* (e.g. a horizontal versus a vertical member) assemble identical K and F  *)
(* and solve to identical U and R.  The model is compared with the model    *)
(* built by the same calls on the node positions turned by a quarter turn.  *)
(***************************************************************************)
\* add_node(x, y) of the turned model: (x, y) turned by 90 degrees about the origin.
Turn(p) == <<-p[2], p[1]>>

TurnedNodes == [k \in 1..Len(nodes) |-> Turn(nodes[k])] \o <<>>

\* The elements add_element stores in the turned model for the same calls.
TurnedElements ==
    [k \in 1..Len(elements) |->
        element_dict(At(TurnedNodes, PyIndex(elements[k].nodes[1], Len(nodes))),
                     At(TurnedNodes, PyIndex(elements[k].nodes[2], Len(nodes))),
                     elements[k].nodes[1], elements[k].nodes[2],
                     elements[k].E, elements[k].A, elements[k].I)] \o <<>>

C30_NoRotation ==
    /\ Returned("assemble_global_matrix") =>
          LET turned == assemble_global_matrix(TurnedNodes, TurnedElements, loads)
          IN turned.err = "" /\ ret.value = <<turned.K, turned.F>>
    /\ ret.op = "solve" =>
          LET turned == SolveModel(TurnedNodes, TurnedElements, supports, loads)
          IN IF turned.err # ""
             THEN ret.status = turned.err
             ELSE ret.status = "ok" /\ ret.value = <<turned.U, turned.R>>

\* solve() has returned on a loaded horizontal span of length 2 fixed at node 0,
\* with node 1 displaced; the turned model is the vertical span.
C30_Witness ==
    /\ Returned("solve")
    /\ nodes = << <<0, 0>>, <<2, 0>> >>
    /\ TurnedNodes = << <<0, 0>>, <<0, 2>> >>
    /\ Len(elements) >= 1
    /\ supports # <<>>
    /\ loads # <<>>
    /\ IsFinite(At(displacements.v, 4))
    /\ At(displacements.v, 4) # Zero

====
